---- MODULE Spec2Model ----
(***************************************************************************)
(* Gamified mood tracker: the stats derivation of the dashboard            *)
(* (frontend/src/App.jsx), the client session and dashboard state machine  *)
(* (frontend/src/App.jsx), and the backend start-up and the protect        *)
(* middleware (backend/server.js, backend/middleware/authMiddleware.js).   *)
(*                                                                         *)
(* Four specifications share the module:                                   *)
(*   SpecStats   - currentStreak / totalPoints over bounded entry lists    *)
(*   SpecClient  - useAuth, AuthScreen and DashboardScreen with requests   *)
(*                 in flight                                               *)
(*   SpecServer  - server start-up, then clients and their requests        *)
(*   SpecProtect - protect applied to every header shape                   *)
(***************************************************************************)
EXTENDS Integers, Sequences, FiniteSets, TLC

VARIABLES
    \* ---- DashboardScreen stats (App.jsx 207-322)
    moodHistory,      \* useState([]) : sequence of entries, newest first as stored
    clock,            \* the browser's clock, in ticks (what new Date() reads)
    \* ---- browser page and useAuth (App.jsx 10-91)
    loaded,           \* TRUE while the page's script is running
    storage,          \* localStorage item 'auth': <<>> when absent, else its text
    auth,             \* useState of useAuth: <<>> for null, <<session>> otherwise
    \* ---- App and AuthScreen (App.jsx 96-201)
    page,             \* 'login' or 'register'
    authScreenLoading,
    authScreenError,
    authRequest,      \* the login/register request in flight, or "none"
    \* ---- DashboardScreen (App.jsx 207-279)
    gen,              \* number of DashboardScreen instances mounted so far
    loading,
    error,
    message,
    inflight,         \* authFetch requests awaiting their response, oldest first
    timers,           \* pending setTimeout callbacks, per DashboardScreen instance
    lastEvent,        \* the handler that ran last and what it was given
    \* ---- backend process (server.js) and what it serves
    env,              \* process.env: PORT, MONGO_URI, JWT_SECRET
    pc,               \* "boot", "connecting", "listening" or "exited"
    exitCode,         \* the status given to process.exit, -1 while running
    listenPort,       \* the port app.listen was given, "" before
    dbState,          \* mongoose.connect: "idle", "pending", "connected", "failed"
    users,            \* ids of the user records in the credential store
    registered,       \* ids ever registered
    held,             \* per client, the token its last login or register returned
    entries,          \* the entry store, in insertion order
    now,              \* the server's clock
    request,          \* the request served last
    outcome           \* what protect and the handler did with it

clientVars == <<loaded, storage, auth, page, authScreenLoading, authScreenError,
                authRequest, gen, loading, error, message, inflight, timers,
                lastEvent>>

serverVars == <<env, pc, exitCode, listenPort, dbState, users, registered, held, entries,
                now, request, outcome>>

vars == <<moodHistory, clock, clientVars, serverVars>>

(***************************************************************************)
(* Bounds of the model.                                                    *)
(***************************************************************************)
MaxDay == 3           \* calendar days 0..MaxDay
TicksPerDay == 2      \* distinct times of day per calendar day
MaxLen == 3           \* longest entry list drawn in SpecStats
MaxMounts == 2        \* DashboardScreen instances mounted in one run
MaxInflight == 2      \* authFetch requests awaiting a response at once
MaxTimers == 2        \* pending setTimeout callbacks per instance
MaxHistory == 1       \* entries in moodHistory when a submission starts
MaxTime == 1          \* the server clock runs 0..MaxTime
TokenTTL == 1         \* lifetime of an issued token, in server clock ticks
MaxEntries == 1       \* entries in the entry store

(***************************************************************************)
(* Program constants.                                                      *)
(***************************************************************************)
PointsPerEntry == 10
Unauthorized == 401

Dates == 0 .. ((MaxDay + 1) * TicksPerDay - 1)

\* An entry as the stats code reads it: only `date` is used (App.jsx 285, 292).
Entry(t) == [date |-> t]

EntryLists == UNION { [1..n -> {Entry(t) : t \in Dates}] : n \in 0..MaxLen }

(***************************************************************************)
(* Date arithmetic of the stats code, on local time.                       *)
(***************************************************************************)
\* d.setHours(0, 0, 0, 0); d.getTime()
setHoursMidnight(t) == t - (t % TicksPerDay)

\* previousDay.setDate(currentDate.getDate() - 1) on a local-midnight date
setDatePrevious(t) == t - TicksPerDay

\* [...moodHistory].sort((a, b) => new Date(b.date) - new Date(a.date))
RECURSIVE insertDesc(_, _)
insertDesc(e, s) ==
    IF s = <<>> THEN <<e>>
    ELSE IF e.date > Head(s).date THEN <<e>> \o s
    ELSE <<Head(s)>> \o insertDesc(e, Tail(s))

RECURSIVE sortedEntries(_)
sortedEntries(h) ==
    IF h = <<>> THEN <<>>
    ELSE insertDesc(Head(h), sortedEntries(Tail(h)))

\* new Set(sortedEntries.map(entry => midnight of entry.date))
entryDates(h) ==
    LET s == sortedEntries(h)
    IN  { setHoursMidnight(s[i].date) : i \in 1..Len(s) }

\* the while (true) loop of currentStreak (App.jsx 310-320)
RECURSIVE streakLoop(_, _, _)
streakLoop(dates, currentDate, streak) ==
    LET previousDay == setDatePrevious(currentDate)
    IN  IF previousDay \in dates
        THEN streakLoop(dates, previousDay, streak + 1)
        ELSE streak

\* a plausible slip: no fall back to yesterday when today has no entry
currentStreak_todayOnly(h, nowT) ==
    IF Len(h) = 0 THEN 0
    ELSE LET dates == entryDates(h)
             today == setHoursMidnight(nowT)
         IN  IF today \in dates THEN streakLoop(dates, today, 1) ELSE 0

\* useMemo(() => {...}, [moodHistory])  (App.jsx 283-322)
currentStreak(h, nowT) ==
    IF Len(h) = 0 THEN 0
    ELSE LET dates == entryDates(h)
             today == setHoursMidnight(nowT)
             yesterday == setDatePrevious(today)
         IN  IF today \in dates
             THEN streakLoop(dates, today, 1)
             ELSE IF yesterday \notin dates
                  THEN 0
                  ELSE streakLoop(dates, yesterday, 1)

\* a plausible slip: points counted per distinct day
totalPoints_perDay(h) == Cardinality(entryDates(h)) * PointsPerEntry

\* useMemo(() => moodHistory.length * 10, [moodHistory])  (App.jsx 281)
totalPoints(h) == Len(h) * PointsPerEntry

(***************************************************************************)
(* Backend: protect (middleware/authMiddleware.js), the mood entry schema  *)
(* (models/moodModel.js) and start-up (server.js).  The routes and         *)
(* controllers behind protect and the user model are not among the source  *)
(* files; they follow the specification's sections 4.1 and 4.2.            *)
(***************************************************************************)
Undefined == "<undefined>"        \* an environment variable that is not set
Secret == "s3cret"                \* a value of JWT_SECRET
ForgedKey == "not-the-secret"     \* the key of a token the server never signed
UserIds == {1, 2}

NoJwt == [form |-> "none", id |-> 0, exp |-> 0, key |-> ""]
Junk == [form |-> "junk", id |-> 0, exp |-> 0, key |-> ""]
Jwt(id, exp, key) == [form |-> "jwt", id |-> id, exp |-> exp, key |-> key]

\* a header value is a sequence of pieces: a word, a single space, or a token
Word(w) == [c |-> w, t |-> NoJwt]
Space == Word(" ")
Tok(t) == [c |-> "token", t |-> t]
NoHeader == <<>>                  \* header not sent (or empty): falsy

\* req.headers.authorization.startsWith('Bearer')  (authMiddleware.js 8)
startsWithBearer(h) == Len(h) > 0 /\ h[1].c \in {"Bearer", "Bearer+"}

\* String.prototype.split(' '): the pieces between single spaces
RECURSIVE splitSpace(_, _)
splitSpace(h, current) ==
    IF h = <<>> THEN <<current>>
    ELSE IF Head(h) = Space
         THEN <<current>> \o splitSpace(Tail(h), <<>>)
         ELSE splitSpace(Tail(h), Append(current, Head(h)))

\* req.headers.authorization.split(' ')[1]; <<>> stands for both undefined
\* and the empty string, which are both falsy and both refused by jwt.verify
tokenPart(h) ==
    LET parts == splitSpace(h, <<>>)
    IN  IF Len(parts) >= 2 THEN parts[2] ELSE <<>>

\* jwt.verify(token, process.env.JWT_SECRET) returns instead of throwing
jwtVerifies(token, secret, nowT) ==
    /\ Len(token) = 1
    /\ token[1].t.form = "jwt"
    /\ secret # Undefined
    /\ token[1].t.key = secret
    /\ token[1].t.exp > nowT

Response(status, msg) == [status |-> status, message |-> msg]

ProtectResult(n, sent, user) == [nextCalls |-> n, sent |-> sent, user |-> user]

\* a plausible slip: the signature is not checked
protect_unverified(h, secret, existing, nowT) ==
    LET token == IF startsWithBearer(h) THEN tokenPart(h) ELSE <<>>
        good == Len(token) = 1 /\ token[1].t.form = "jwt"
    IN  IF good
        THEN ProtectResult(1, <<>>, token[1].t.id)
        ELSE ProtectResult(0, <<Response(401, "Not authorized, no token")>>, 0)

\* a plausible slip: the user named by the token is not looked up
protect_noUserLookup(h, secret, existing, nowT) ==
    LET enters == h # NoHeader /\ startsWithBearer(h)
        token == IF enters THEN tokenPart(h) ELSE <<>>
        verified == enters /\ jwtVerifies(token, secret, nowT)
        inTry == IF ~enters \/ verified THEN <<>>
                 ELSE <<Response(401, "Not authorized, token failed")>>
        afterIf == IF token = <<>>
                   THEN <<Response(401, "Not authorized, no token")>>
                   ELSE <<>>
    IN  ProtectResult(IF verified THEN 1 ELSE 0,
                      inTry \o afterIf,
                      IF verified THEN token[1].t.id ELSE 0)

\* protect (authMiddleware.js 4-35): how often next() is called, the
\* res.status(..).json(..) calls in order, and req.user
protect(h, secret, existing, nowT) ==
    LET enters == h # NoHeader /\ startsWithBearer(h)
        token == IF enters THEN tokenPart(h) ELSE <<>>
        found == /\ enters
                 /\ jwtVerifies(token, secret, nowT)
                 /\ token[1].t.id \in existing
        inTry == IF ~enters THEN <<>>
                 ELSE IF found THEN <<>>
                 ELSE <<Response(401, "Not authorized, token failed")>>
        afterIf == IF token = <<>>
                   THEN <<Response(401, "Not authorized, no token")>>
                   ELSE <<>>
    IN  ProtectResult(IF found THEN 1 ELSE 0,
                      inTry \o afterIf,
                      IF found THEN token[1].t.id ELSE 0)

\* enum of moodEntrySchema.mood (moodModel.js 12-16)
Moods == {"happy", "good", "neutral", "sad", "upset"}

\* schema validation of a new MoodEntry (moodModel.js 7-16)
validates(user, mood) == user \in UserIds /\ mood \in Moods

\* createEntry of the mood entry service: the entry is owned by req.user
newEntry(user, mood, by) == [user |-> user, mood |-> mood, by |-> by]

\* listEntries of the mood entry service: the entries owned by req.user
listEntries(all, user) == SelectSeq(all, LAMBDA e : e.user = user)

NoRequest == [by |-> 0, method |-> "none", header |-> NoHeader, mood |-> ""]
NoOutcome == [nextCalls |-> 0, sent |-> <<>>, user |-> 0, status |-> 0,
              list |-> <<>>]

\* one request to /api/moods: protect, then the handler when next() was called
Serve(by, method, header, mood) ==
    LET p == protect(header, env.JWT_SECRET, users, now)
        created == p.nextCalls > 0 /\ method = "POST" /\ validates(p.user, mood)
        status == IF p.nextCalls = 0 THEN Head(p.sent).status
                  ELSE IF method = "GET" THEN 200
                  ELSE IF created THEN 201 ELSE 400
    IN  /\ pc = "listening"
        /\ created => Len(entries) < MaxEntries
        /\ entries' = IF created
                      THEN Append(entries, newEntry(p.user, mood, by))
                      ELSE entries
        /\ request' = [by |-> by, method |-> method, header |-> header,
                       mood |-> mood]
        /\ outcome' = [nextCalls |-> p.nextCalls, sent |-> p.sent,
                       user |-> p.user, status |-> status,
                       list |-> IF p.nextCalls > 0 /\ method = "GET"
                                THEN listEntries(entries, p.user) ELSE <<>>]

\* the backend left out of a specification about the client alone
ServerIdle ==
    /\ env = [PORT |-> Undefined, MONGO_URI |-> Undefined, JWT_SECRET |-> Undefined]
    /\ pc = "boot"
    /\ exitCode = -1
    /\ listenPort = ""
    /\ dbState = "idle"
    /\ users = {}
    /\ registered = {}
    /\ held = [p \in UserIds |-> NoJwt]
    /\ entries = <<>>
    /\ now = 0
    /\ request = NoRequest
    /\ outcome = NoOutcome

(***************************************************************************)
(* Values of the client state.                                             *)
(***************************************************************************)
None == <<>>                      \* JavaScript null in the auth slot
Absent == <<>>                    \* localStorage.getItem('auth') === null
Unparsable == <<"%">>             \* a stored text JSON.parse throws on

\* bodies of a successful /auth/login or /auth/register response
Sessions == { [username |-> "ann", token |-> "tokA"],
              [username |-> "ben", token |-> "tokB"] }

\* JSON.stringify(auth)  (App.jsx 27): the text of the object
JSONstringify(s) == <<"{", s.token, s.username, "}">>

\* whether JSON.parse(text) returns instead of throwing
parses(text) == Len(text) = 4 /\ text[1] = "{" /\ text[4] = "}"

\* JSON.parse(storedAuth)  (App.jsx 15)
JSONparse(text) == [username |-> text[3], token |-> text[2]]

\* what the item can hold when the page is opened
StoredTexts == {Absent, Unparsable} \cup { JSONstringify(s) : s \in Sessions }

NullError == "<null>"             \* error state holding null
LoginPage == "login"
RegisterPage == "register"

NoTimers == [g \in 1..MaxMounts |-> 0]

IdleEvent == [op |-> "none", status |-> 0, threw |-> FALSE]

Event(op, status, threw) == [op |-> op, status |-> status, threw |-> threw]

\* the client before the page's script has run, apart from the stored item
ClientReset ==
    /\ loaded = FALSE
    /\ auth = None
    /\ page = LoginPage
    /\ authScreenLoading = FALSE
    /\ authScreenError = NullError
    /\ authRequest = "none"
    /\ gen = 0
    /\ loading = FALSE
    /\ error = NullError
    /\ message = ""
    /\ inflight = <<>>
    /\ timers = NoTimers
    /\ lastEvent = IdleEvent

ClientIdle == ClientReset /\ storage = Absent

(***************************************************************************)
(* SpecStats: the stats of every bounded entry list at every clock value.  *)
(***************************************************************************)
InitStats ==
    /\ moodHistory \in EntryLists
    /\ clock \in Dates
    /\ ClientIdle
    /\ ServerIdle

\* setMoodHistory([savedEntry, ...moodHistory])  (App.jsx 266)
StatsAddEntry ==
    /\ Len(moodHistory) < MaxLen
    /\ \E t \in Dates : moodHistory' = <<Entry(t)>> \o moodHistory
    /\ UNCHANGED <<clock, clientVars, serverVars>>

\* time passes between two renders
StatsTick ==
    /\ clock + 1 \in Dates
    /\ clock' = clock + 1
    /\ UNCHANGED <<moodHistory, clientVars, serverVars>>

NextStats == StatsAddEntry \/ StatsTick

SpecStats == InitStats /\ [][NextStats]_vars

(***************************************************************************)
(* Calendar-day reading of a list, independent of the code above.          *)
(***************************************************************************)
DayOf(t) == t \div TicksPerDay

DaysWithEntry(h) == { DayOf(h[i].date) : i \in 1..Len(h) }

\* the day the run must end at: today, or yesterday when today has no entry
RunEnd(h, nowT) ==
    IF DayOf(nowT) \in DaysWithEntry(h) THEN DayOf(nowT) ELSE DayOf(nowT) - 1

\* length of the maximal run of consecutive days with an entry ending at RunEnd
MaximalRun(h, nowT) ==
    LET end == RunEnd(h, nowT)
        runs == { k \in 0..(MaxDay + 2) :
                    \A i \in 0..(k - 1) : (end - i) \in DaysWithEntry(h) }
    IN  CHOOSE k \in runs : \A j \in runs : j <= k

OnDays(h, S) == DaysWithEntry(h) = S

\* C5: for every entry list and every today, currentStreak is the length of
\* the maximal run of consecutive calendar days with at least one entry that
\* ends at today, or at yesterday when today has no entry; 0 when neither has
\* an entry or the list is empty; {today} gives 1, {today, yesterday, day-2}
\* gives 3, {yesterday, day-2} gives 2, {day-2} alone gives 0.
C5_StreakIsMaximalRun ==
    LET s == currentStreak(moodHistory, clock)
        d == DayOf(clock)
    IN  /\ s = MaximalRun(moodHistory, clock)
        /\ (moodHistory = <<>>) => s = 0
        /\ (d \notin DaysWithEntry(moodHistory)
              /\ (d - 1) \notin DaysWithEntry(moodHistory)) => s = 0
        /\ OnDays(moodHistory, {d}) => s = 1
        /\ OnDays(moodHistory, {d, d - 1, d - 2}) => s = 3
        /\ OnDays(moodHistory, {d - 1, d - 2}) => s = 2
        /\ OnDays(moodHistory, {d - 2}) => s = 0

\* nothing today, entries yesterday and the day before: the streak is 2
C5_Witness ==
    /\ DayOf(clock) >= 2
    /\ OnDays(moodHistory, {DayOf(clock) - 1, DayOf(clock) - 2})
    /\ Len(moodHistory) = MaxLen
    /\ currentStreak(moodHistory, clock) = 2

\* C6: totalPoints is 10 times the number of entries, duplicates on one day
\* included; an entry added on a day that already has one raises totalPoints
\* by exactly 10 and leaves currentStreak unchanged.
C6_PointsPerEntryStreakPerDay ==
    [][ /\ totalPoints(moodHistory') = 10 * Len(moodHistory')
        /\ (/\ Len(moodHistory') = Len(moodHistory) + 1
            /\ DayOf(Head(moodHistory').date) \in DaysWithEntry(moodHistory))
           => /\ totalPoints(moodHistory') = totalPoints(moodHistory) + 10
              /\ currentStreak(moodHistory', clock') = currentStreak(moodHistory, clock)
      ]_vars

\* two entries on the same day inside a running streak
C6_Witness ==
    /\ Len(moodHistory) >= 2
    /\ DayOf(moodHistory[1].date) = DayOf(moodHistory[2].date)
    /\ moodHistory[1].date # moodHistory[2].date
    /\ DayOf(moodHistory[1].date) = DayOf(clock)
    /\ totalPoints(moodHistory) = 10 * Len(moodHistory)
    /\ currentStreak(moodHistory, clock) = 1

(***************************************************************************)
(* SpecClient: useAuth, App, AuthScreen and DashboardScreen.               *)
(***************************************************************************)
\* HTTP statuses the server answers with, and 0 for a fetch() that rejects
Rejected == {0}
GetStatuses == {200, 401, 500} \cup Rejected
PostStatuses == {201, 400, 401} \cup Rejected
AuthStatuses == {200, 201, 400, 401} \cup Rejected

\* response.ok
ok(status) == status >= 200 /\ status <= 299

\* bodies of a 200 answer to GET /moods
ServerLists == { <<>>, <<Entry(0)>> }

\* useState(() => {...}) of useAuth (App.jsx 11-23): the initial auth
initialAuth(text) ==
    IF text # Absent
    THEN IF parses(text) THEN <<JSONparse(text)>> ELSE None
    ELSE None

\* the catch branch of the initializer (App.jsx 16-20): removeItem('auth')
storageAfterInitializer(text) ==
    IF text # Absent /\ ~parses(text) THEN Absent ELSE text

\* a plausible slip: the effect never removes the item
persist_neverRemoves(a, text) ==
    IF a # None THEN JSONstringify(a[1]) ELSE text

\* useEffect(() => {...}, [auth]) of useAuth (App.jsx 25-31)
persist(a, text) ==
    IF a # None THEN JSONstringify(a[1]) ELSE Absent

\* a plausible slip: a 401 leaves the session as it is
authAfterResponse_ignores401(a, status) == a

\* authFetch after the response (App.jsx 46-49): setAuth(null) on a 401
authAfterResponse(a, status) ==
    IF status = Unauthorized THEN None ELSE a

\* whether authFetch throws instead of returning the response (App.jsx 44-51)
authFetchThrows(status) == status \in Rejected \/ status = Unauthorized

\* <button type="submit" disabled={loading}>  (App.jsx 399-405)
submitDisabled(l) == l

GetRequest(g, a) == [kind |-> "GET", gen |-> g, token |-> a[1].token,
                     hist |-> <<>>, date |-> 0]

PostRequest(g, a, h, t) == [kind |-> "POST", gen |-> g, token |-> a[1].token,
                            hist |-> h, date |-> t]

Without(s, i) == SubSeq(s, 1, i - 1) \o SubSeq(s, i + 1, Len(s))

\* a DashboardScreen instance is on screen and r was issued by it
Live(r) == auth # None /\ r.gen = gen

\* DashboardScreen leaves the screen: its state is gone
Unmount ==
    /\ moodHistory' = <<>>
    /\ loading' = FALSE
    /\ error' = NullError
    /\ message' = ""

\* a new DashboardScreen is rendered for session a and its effect
\* (App.jsx 223-241) starts fetchMoods up to the await; pending is what is
\* already in flight
Mount(a, pending) ==
    /\ gen' = gen + 1
    /\ moodHistory' = <<>>
    /\ message' = ""
    /\ loading' = TRUE
    /\ error' = NullError
    /\ inflight' = Append(pending, GetRequest(gen + 1, a))

\* the page's script starts: useAuth's initializer and effect, then App renders
PageLoad ==
    /\ ~loaded
    /\ loaded' = TRUE
    /\ auth' = initialAuth(storage)
    /\ storage' = persist(auth', storageAfterInitializer(storage))
    /\ IF auth' # None
       THEN Mount(auth', <<>>)
       ELSE Unmount /\ UNCHANGED <<gen, inflight>>
    /\ lastEvent' = Event("load", 0, FALSE)
    /\ UNCHANGED <<serverVars, clock, page, authScreenLoading, authScreenError, authRequest,
                   timers>>

\* the user reloads or reopens the page: all script state is lost, requests
\* are abandoned, the stored item stays
Reload ==
    /\ loaded
    /\ gen < MaxMounts
    /\ loaded' = FALSE
    /\ auth' = None
    /\ page' = LoginPage
    /\ authScreenLoading' = FALSE
    /\ authScreenError' = NullError
    /\ authRequest' = "none"
    /\ Unmount
    /\ inflight' = <<>>
    /\ timers' = NoTimers
    /\ lastEvent' = Event("reload", 0, FALSE)
    /\ UNCHANGED <<serverVars, clock, storage, gen>>

\* onSwitch (App.jsx 112, 120)
SwitchPage ==
    /\ loaded /\ auth = None
    /\ page' = IF page = LoginPage THEN RegisterPage ELSE LoginPage
    /\ lastEvent' = Event("switch", 0, FALSE)
    /\ UNCHANGED <<serverVars, moodHistory, clock, loaded, storage, auth, authScreenLoading,
                   authScreenError, authRequest, gen, loading, error, message,
                   inflight, timers>>

\* AuthScreen.handleSubmit up to the await (App.jsx 136-145)
AuthSubmit(filled) ==
    /\ loaded /\ auth = None
    /\ ~authScreenLoading
    /\ gen < MaxMounts
    /\ IF ~filled
       THEN /\ authScreenError' = "Username and password are required."
            /\ UNCHANGED <<authScreenLoading, authRequest>>
       ELSE /\ authScreenLoading' = TRUE
            /\ authScreenError' = NullError
            /\ authRequest' = page
    /\ lastEvent' = Event("authSubmit", 0, FALSE)
    /\ UNCHANGED <<serverVars, moodHistory, clock, loaded, storage, auth, page, gen, loading,
                   error, message, inflight, timers>>

\* login / register after the response (App.jsx 61-67, 77-83) and the rest of
\* AuthScreen.handleSubmit (App.jsx 146-150)
AuthResponse(status, data) ==
    /\ loaded /\ authRequest # "none"
    /\ authRequest' = "none"
    /\ IF ok(status)
       THEN \* setAuth(data): the effect stores it, App renders DashboardScreen
            /\ auth' = <<data>>
            /\ storage' = persist(auth', storage)
            /\ IF auth = None
               THEN Mount(auth', inflight)
               ELSE UNCHANGED <<gen, moodHistory, message, loading, error, inflight>>
            /\ authScreenLoading' = FALSE
            /\ authScreenError' = NullError
       ELSE /\ authScreenError' = (IF authRequest = LoginPage
                                   THEN "Login failed" ELSE "Registration failed")
            /\ authScreenLoading' = FALSE
            /\ UNCHANGED <<auth, storage, gen, moodHistory, message, loading, error,
                           inflight>>
    /\ lastEvent' = Event(authRequest, status, ~ok(status))
    /\ UNCHANGED <<serverVars, clock, loaded, page, timers>>

\* logout (App.jsx 86-88)
Logout ==
    /\ loaded /\ auth # None
    /\ auth' = None
    /\ storage' = persist(auth', storage)
    /\ Unmount
    /\ lastEvent' = Event("logout", 0, FALSE)
    /\ UNCHANGED <<serverVars, clock, loaded, page, authScreenLoading, authScreenError,
                   authRequest, gen, inflight, timers>>

\* DashboardScreen.handleSubmit up to the await (App.jsx 243-259)
HandleSubmit ==
    /\ loaded /\ auth # None
    /\ ~submitDisabled(loading)
    /\ Len(inflight) < MaxInflight
    /\ Len(moodHistory) <= MaxHistory
    /\ timers[gen] + Cardinality({i \in 1..Len(inflight) :
                                    inflight[i].kind = "POST" /\ inflight[i].gen = gen})
         < MaxTimers
    /\ loading' = TRUE
    /\ error' = NullError
    /\ message' = ""
    /\ inflight' = Append(inflight, PostRequest(gen, auth, moodHistory, clock))
    /\ lastEvent' = Event("handleSubmit", 0, FALSE)
    /\ UNCHANGED <<serverVars, moodHistory, clock, loaded, storage, auth, page,
                   authScreenLoading, authScreenError, authRequest, gen, timers>>

\* the finally of fetchMoods (App.jsx 236-238) sets no timer; the finally of
\* handleSubmit (App.jsx 272-278) sets one
timersAfter(r) ==
    IF r.kind = "POST" THEN [timers EXCEPT ![r.gen] = @ + 1] ELSE timers

\* an authFetch request is answered: the rest of authFetch (App.jsx 44-51),
\* then the rest of fetchMoods (App.jsx 229-238) or of handleSubmit
\* (App.jsx 261-278)
AuthFetchResponse(i, status, data) ==
    LET r == inflight[i]
        rest == Without(inflight, i)
        threw == authFetchThrows(status)
        failure == IF status \in Rejected THEN "Failed to fetch"
                   ELSE IF status = Unauthorized
                        THEN "Unauthorized. Please log in again."
                   ELSE IF r.kind = "GET" THEN "Failed to fetch mood history."
                   ELSE "Failed to save mood. Please try again."
    IN  /\ loaded
        /\ status \in (IF r.kind = "GET" THEN GetStatuses ELSE PostStatuses)
        /\ ok(status) /\ r.kind = "GET" => data \in ServerLists
        /\ ~(ok(status) /\ r.kind = "GET") => data = <<>>
        /\ auth' = authAfterResponse(auth, status)
        /\ storage' = persist(auth', storage)
        /\ inflight' = rest
        /\ timers' = timersAfter(r)
        /\ IF auth' = None
           THEN Unmount
           ELSE IF ~Live(r)
           THEN UNCHANGED <<moodHistory, loading, error, message>>
           ELSE /\ loading' = FALSE
                /\ IF ok(status)
                   THEN /\ error' = error
                        /\ IF r.kind = "GET"
                           THEN moodHistory' = data /\ message' = message
                           ELSE /\ moodHistory' = <<Entry(r.date)>> \o r.hist
                                /\ message' = "Mood saved successfully! You earned 10 points."
                   ELSE /\ error' = failure
                        /\ UNCHANGED <<moodHistory, message>>
        /\ lastEvent' = Event("authFetch", status, threw)
        /\ UNCHANGED <<serverVars, clock, loaded, page, authScreenLoading, authScreenError,
                       authRequest, gen>>

\* the setTimeout callback of handleSubmit (App.jsx 274-277) runs
TimerFires(g) ==
    /\ loaded
    /\ timers[g] > 0
    /\ timers' = [timers EXCEPT ![g] = @ - 1]
    /\ IF auth # None /\ g = gen
       THEN message' = "" /\ error' = ""
       ELSE UNCHANGED <<message, error>>
    /\ lastEvent' = Event("timer", 0, FALSE)
    /\ UNCHANGED <<serverVars, moodHistory, clock, loaded, storage, auth, page,
                   authScreenLoading, authScreenError, authRequest, gen, loading,
                   inflight>>

InitClient ==
    /\ ClientReset
    /\ storage \in StoredTexts
    /\ moodHistory = <<>>
    /\ clock = 0
    /\ ServerIdle

NextClient ==
    \/ PageLoad
    \/ Reload
    \/ SwitchPage
    \/ \E filled \in BOOLEAN : AuthSubmit(filled)
    \/ \E status \in AuthStatuses, data \in Sessions : AuthResponse(status, data)
    \/ Logout
    \/ HandleSubmit
    \/ \E i \in 1..Len(inflight), status \in GetStatuses \cup PostStatuses,
          data \in ServerLists : AuthFetchResponse(i, status, data)
    \/ \E g \in 1..MaxMounts : TimerFires(g)

SpecClient == InitClient /\ [][NextClient]_vars

(***************************************************************************)
(* Claims about the client.                                                *)
(***************************************************************************)
Anonymous(a) == a = None

Authenticated(a) ==
    /\ Len(a) = 1
    /\ a[1].username # ""
    /\ a[1].token # ""
    /\ a[1] \in Sessions

\* C3: whenever a request made through authFetch is answered 401, the session
\* becomes anonymous and the item 'auth' is removed from local storage, and
\* the caller gets an error instead of the response; the session then stays
\* anonymous until a login or register succeeds (a reload finds no stored
\* token); no other response status changes the session.
C3_UnauthorizedLogsOut ==
    [][ LET e == lastEvent'
        IN  /\ (e.op = "authFetch" /\ e.status = 401)
                 => (Anonymous(auth') /\ storage' = Absent /\ e.threw)
            /\ (e.op = "authFetch" /\ e.status # 401)
                 => (auth' = auth /\ storage' = storage)
            /\ (loaded /\ Anonymous(auth) /\ ~Anonymous(auth'))
                 => (e.op \in {LoginPage, RegisterPage} /\ ok(e.status))
            /\ (~loaded /\ loaded' /\ storage = Absent) => Anonymous(auth')
      ]_vars

\* a dashboard request has just been answered 401 and the user is logged out
C3_Witness ==
    /\ lastEvent.op = "authFetch"
    /\ lastEvent.status = 401
    /\ lastEvent.threw
    /\ gen >= 1
    /\ Anonymous(auth)
    /\ storage = Absent

\* C4: after any sequence of login, register, logout, 401 responses and page
\* reloads the session is anonymous or authenticated with both a username
\* and a token, and the item 'auth' mirrors it (absent when anonymous, the
\* serialized session when authenticated); a page load restores exactly the
\* stored session, and an unparsable stored value yields anonymous with the
\* item removed.
C4_SingleSlotMirrored ==
    [][ /\ loaded' =>
             /\ Anonymous(auth') \/ Authenticated(auth')
             /\ Anonymous(auth') => storage' = Absent
             /\ Authenticated(auth') => storage' = JSONstringify(auth'[1])
        /\ (~loaded /\ loaded') =>
             /\ \A s \in Sessions :
                    storage = JSONstringify(s) => (auth' = <<s>> /\ storage' = storage)
             /\ storage = Unparsable => (Anonymous(auth') /\ storage' = Absent)
             /\ storage = Absent => Anonymous(auth')
      ]_vars

\* the page was reloaded while logged in and the stored session came back
C4_Witness ==
    /\ loaded
    /\ lastEvent.op = "load"
    /\ gen = 2
    /\ Authenticated(auth)
    /\ storage = JSONstringify(auth[1])

OutstandingPosts == { i \in 1..Len(inflight) : inflight[i].kind = "POST" }

\* C7: at most one mood-submission request is outstanding at any time: while
\* a POST started by handleSubmit is unanswered, the busy flag is true and
\* the submit action is disabled.
C7_OneSubmissionOutstanding ==
    /\ Cardinality(OutstandingPosts) <= 1
    /\ (auth # None /\ OutstandingPosts # {})
         => (loading /\ submitDisabled(loading))

Shown(text) == text # NullError /\ text # ""

\* C8: every failure message shown on the dashboard, from a failed history
\* fetch or a failed submission, has a clearing timer pending that the
\* operation producing the message started.
C8_FailureMessageHasTimer ==
    (auth # None /\ Shown(error)) => timers[gen] > 0

(***************************************************************************)
(* SpecServer: start-up (server.js), then clients that register, log in    *)
(* and send requests to /api/moods.                                        *)
(***************************************************************************)
Environments == [PORT : {Undefined, "8080"},
                 MONGO_URI : {Undefined, "mongodb://db/moods"},
                 JWT_SECRET : {Undefined, Secret}]

ClientIdleAll == ClientIdle /\ moodHistory = <<>> /\ clock = 0

clientSide == <<moodHistory, clock, clientVars>>

InitServer ==
    /\ env \in Environments
    /\ pc = "boot"
    /\ exitCode = -1
    /\ listenPort = ""
    /\ dbState = "idle"
    /\ users = {}
    /\ registered = {}
    /\ held = [p \in UserIds |-> NoJwt]
    /\ entries = <<>>
    /\ now = 0
    /\ request = NoRequest
    /\ outcome = NoOutcome
    /\ ClientIdleAll

\* a plausible slip: the connection string is not checked before connecting
Boot_noUriCheck ==
    /\ pc = "boot"
    /\ pc' = "connecting"
    /\ dbState' = "pending"
    /\ UNCHANGED <<env, exitCode, listenPort, users, registered, held, entries,
                   now, request, outcome, clientSide>>

\* the synchronous part of server.js (11-25): without MONGO_URI the process
\* exits with status 1, else mongoose.connect is started
Boot ==
    /\ pc = "boot"
    /\ IF env.MONGO_URI = Undefined
       THEN /\ pc' = "exited"
            /\ exitCode' = 1
            /\ UNCHANGED dbState
       ELSE /\ pc' = "connecting"
            /\ dbState' = "pending"
            /\ UNCHANGED exitCode
    /\ UNCHANGED <<env, listenPort, users, registered, held, entries, now,
                   request, outcome, clientSide>>

\* const PORT = process.env.PORT || 5001  (server.js 11)
PORT == IF env.PORT # Undefined THEN env.PORT ELSE "5001"

\* the .then of mongoose.connect (server.js 26-31): app.listen(PORT)
ConnectResolved ==
    /\ pc = "connecting"
    /\ dbState' = "connected"
    /\ pc' = "listening"
    /\ listenPort' = PORT
    /\ UNCHANGED <<env, exitCode, users, registered, held, entries, now, request,
                   outcome, clientSide>>

\* the .catch of mongoose.connect (server.js 32-35): process.exit(1)
ConnectRejected ==
    /\ pc = "connecting"
    /\ dbState' = "failed"
    /\ pc' = "exited"
    /\ exitCode' = 1
    /\ UNCHANGED <<env, listenPort, users, registered, held, entries, now,
                   request, outcome, clientSide>>

startup == <<env, pc, exitCode, listenPort, dbState>>

\* the token of a successful register or login; signing needs the secret
issue(p) ==
    IF env.JWT_SECRET = Undefined THEN NoJwt
    ELSE Jwt(p, now + TokenTTL, env.JWT_SECRET)

\* POST /api/auth/register by client p, with a username not yet taken
Register(p) ==
    /\ pc = "listening"
    /\ p \notin registered
    /\ registered' = registered \cup {p}
    /\ users' = users \cup {p}
    /\ held' = [held EXCEPT ![p] = issue(p)]
    /\ request' = NoRequest /\ outcome' = NoOutcome
    /\ UNCHANGED <<startup, entries, now, clientSide>>

\* POST /api/auth/login by client p with its own credentials
Login(p) ==
    /\ pc = "listening"
    /\ p \in users
    /\ held' = [held EXCEPT ![p] = issue(p)]
    /\ request' = NoRequest /\ outcome' = NoOutcome
    /\ UNCHANGED <<startup, users, registered, entries, now, clientSide>>

\* a user record disappears from the credential store (the case protect
\* guards with `if (!req.user)`)
StoreLosesUser(u) ==
    /\ pc = "listening"
    /\ u \in users
    /\ users' = users \ {u}
    /\ request' = NoRequest /\ outcome' = NoOutcome
    /\ UNCHANGED <<startup, registered, held, entries, now, clientSide>>

\* the server's clock advances
Tick ==
    /\ pc = "listening"
    /\ now < MaxTime
    /\ now' = now + 1
    /\ request' = NoRequest /\ outcome' = NoOutcome
    /\ UNCHANGED <<startup, users, registered, held, entries, clientSide>>

\* tokens client p can put in a header: the one it holds, ones it signs
\* itself with a key of its own for another user's id, and junk
Presentable(p) ==
    ({held[p]} \ {NoJwt})
      \cup { Jwt(u, now + TokenTTL, ForgedKey) : u \in UserIds \ {p} }
      \cup {Junk}

BearerHeader(t) == <<Word("Bearer"), Space, Tok(t)>>

ClientHeaders(p) == {NoHeader} \cup { BearerHeader(t) : t \in Presentable(p) }

\* method and mood of the requests sent: a GET has no body
Bodies == { <<"GET", "">>, <<"POST", "happy">>, <<"POST", "furious">> }

\* GET or POST /api/moods by client p
Request(p, method, header, mood) ==
    /\ Serve(p, method, header, mood)
    /\ UNCHANGED <<startup, users, registered, held, now, clientSide>>

NextServer ==
    \/ Boot
    \/ ConnectResolved
    \/ ConnectRejected
    \/ \E p \in UserIds : Register(p)
    \/ \E p \in UserIds : Login(p)
    \/ \E u \in UserIds : StoreLosesUser(u)
    \/ Tick
    \/ \E p \in UserIds, body \in Bodies :
          \E header \in ClientHeaders(p) : Request(p, body[1], header, body[2])

SpecServer == InitServer /\ [][NextServer]_vars

(***************************************************************************)
(* SpecProtect: protect applied to every header shape, in every state of   *)
(* the credential store, the secret and the clock.                         *)
(***************************************************************************)
\* tokens of every kind at clock value t: signed with the secret or not,
\* expired or not, for each user id, and junk
AnyTokens(t) ==
    {Junk} \cup { Jwt(u, e, k) : u \in UserIds, e \in {t, t + TokenTTL},
                                  k \in {Secret, ForgedKey} }

\* the shapes a header is given around token k
HeaderShapes(k) ==
    { NoHeader,
      <<Word("Bearer")>>,
      <<Word("Bearer"), Space>>,
      <<Word("Bearer"), Space, Tok(k)>>,
      <<Word("Bearer"), Tok(k)>>,
      <<Word("Bearer"), Space, Space, Tok(k)>>,
      <<Word("Bearer"), Space, Tok(k), Space, Word("x")>>,
      <<Word("Bearer"), Space, Tok(k), Word("x")>>,
      <<Word("Bearer+"), Space, Tok(k)>>,
      <<Word("Basic"), Space, Tok(k)>>,
      <<Tok(k)>> }

\* every token in the standard shape, and every shape around a token that
\* is signed with the secret and unexpired
AnyHeaders(t) ==
    { BearerHeader(k) : k \in AnyTokens(t) }
      \cup UNION { HeaderShapes(Jwt(u, t + TokenTTL, Secret)) : u \in UserIds }

InitProtect ==
    /\ env \in { e \in Environments : e.MONGO_URI # Undefined /\ e.PORT = Undefined }
    /\ pc = "listening"
    /\ exitCode = -1
    /\ listenPort = "5001"
    /\ dbState = "connected"
    /\ users \in SUBSET UserIds
    /\ registered = UserIds
    /\ held = [p \in UserIds |-> NoJwt]
    /\ entries = <<>>
    /\ now \in 0..MaxTime
    /\ request = NoRequest
    /\ outcome = NoOutcome
    /\ ClientIdleAll

\* a request to /api/moods from anyone, with any Authorization header
AnyRequest(method, header) ==
    /\ Serve(0, method, header, "happy")
    /\ UNCHANGED <<startup, users, registered, held, now, clientSide>>

NextProtect ==
    \/ \E method \in {"GET", "POST"} :
          \E header \in AnyHeaders(now) : AnyRequest(method, header)
    \/ Tick

SpecProtect == InitProtect /\ [][NextProtect]_vars

(***************************************************************************)
(* Claims about the backend.                                               *)
(***************************************************************************)
\* the header starts with 'Bearer' and the text between its first and second
\* space is a well-formed, unexpired token signed with the secret whose user
\* id is in the credential store
ValidHeader(h, secret, existing, nowT) ==
    \E i \in 2..(Len(h) - 1) :
        /\ h[1].c \in {"Bearer", "Bearer+"}
        /\ h[i] = Space
        /\ \A j \in 1..(i - 1) : h[j] # Space
        /\ (i + 2 <= Len(h)) => h[i + 2] = Space
        /\ h[i + 1].c = "token"
        /\ h[i + 1].t.form = "jwt"
        /\ secret # Undefined
        /\ h[i + 1].t.key = secret
        /\ h[i + 1].t.exp > nowT
        /\ h[i + 1].t.id \in existing

\* C1: next is invoked only when the Authorization header is present, starts
\* with 'Bearer' and carries a token that verifies against the secret and
\* whose user exists; in every other case the request is answered 401 with a
\* JSON {message} body, the handler is not invoked and the store is unchanged.
C1_ProtectGate ==
    [][ LET valid == ValidHeader(request'.header, env'.JWT_SECRET, users', now')
        IN  request'.method # "none" =>
              /\ outcome'.nextCalls > 0 => valid
              /\ ~valid =>
                   /\ outcome'.nextCalls = 0
                   /\ outcome'.sent # <<>>
                   /\ Head(outcome'.sent).status = 401
                   /\ Head(outcome'.sent).message # ""
                   /\ outcome'.status = 401
                   /\ entries' = entries
                   /\ users' = users
      ]_vars

\* a POST with an expired, correctly signed token of an existing user was
\* refused while the store already held an entry
C1_Witness ==
    /\ request.method = "POST"
    /\ \E u \in users : request.header = BearerHeader(Jwt(u, now, Secret))
    /\ env.JWT_SECRET = Secret
    /\ outcome.nextCalls = 0
    /\ outcome.status = 401
    /\ Len(entries) = MaxEntries

\* C2: no entry created by client A appears in the list returned to client
\* B # A: every stored entry carries the id of the user whose token was
\* verified for the creating request, and a list holds only entries owned by
\* the verified user of the listing request.
C2_NoCrossUserLeak ==
    /\ \A i \in 1..Len(entries) : entries[i].user = entries[i].by
    /\ outcome.nextCalls > 0 => outcome.user = request.by
    /\ \A i \in 1..Len(outcome.list) :
          /\ outcome.list[i].by = request.by
          /\ outcome.list[i].user = outcome.user

\* both users have stored an entry and one of them lists its own
C2_Witness ==
    /\ Len(entries) >= 1
    /\ request.method = "GET"
    /\ request.by # entries[1].by
    /\ outcome.nextCalls = 1
    /\ outcome.list = <<>>

\* C9 as stated: the server listens only with a port, a connection string
\* and a signing secret all set and the database connected, and exits with a
\* failure status when the connection string is absent or connecting fails.
C9_AllThreeRequired ==
    /\ pc = "listening" =>
          /\ env.PORT # Undefined
          /\ env.MONGO_URI # Undefined
          /\ env.JWT_SECRET # Undefined
          /\ dbState = "connected"
    /\ (pc # "boot" /\ (env.MONGO_URI = Undefined \/ dbState = "failed"))
          => (pc = "exited" /\ exitCode = 1 /\ listenPort = "")

\* C9 amended: only the connection string is required at start-up; the
\* server listens only after the database connection has succeeded, and when
\* the connection string is absent or connecting fails the process exits with
\* status 1, never listens and serves no request.
C9_DatabaseRequired ==
    [][ /\ pc' = "listening" =>
              /\ env'.MONGO_URI # Undefined
              /\ dbState' = "connected"
              /\ listenPort' # ""
        /\ (pc' # "boot" /\ (env'.MONGO_URI = Undefined \/ dbState' = "failed"))
              => (pc' = "exited" /\ exitCode' = 1 /\ listenPort' = "")
        /\ pc = "exited" => (pc' = "exited" /\ listenPort' = "")
        /\ pc' # "listening" => request' = NoRequest
      ]_vars

\* the connection attempt failed and the process has exited without listening
C9_Witness ==
    /\ env.MONGO_URI # Undefined
    /\ dbState = "failed"
    /\ pc = "exited"
    /\ exitCode = 1
    /\ listenPort = ""

\* C10: protect ends every request in exactly one way: next() once and no
\* response of its own, or one 401 response and no next(); never two
\* responses, also for 'Bearer' with an empty or absent token part.
C10_ExactlyOneOutcome ==
    request.method # "none" =>
        \/ (outcome.nextCalls = 1 /\ Len(outcome.sent) = 0)
        \/ (outcome.nextCalls = 0 /\ Len(outcome.sent) = 1)

====
